---------------------------- MODULE Spec2Model ----------------------------
(***************************************************************************)
(* Black Hole Salvage (ld58): the survival/economy loop of Game.js and the *)
(* menu / station handlers that start, pause and resume it.                *)
(*                                                                         *)
(* Units.  Every ShipState quantity (warp, fuel, iron, distance and their  *)
(* maxima) is an integer count of millionths: U = 1.000000.  Times are     *)
(* milliseconds.  Multipliers of the upgrade catalog are percentages.      *)
(* Geometry is abstracted: an asteroid carries its distance to the ship    *)
(* and whether it is in front of it, and moves along a fly-by track; which *)
(* particles are within collection range in a frame is an input.           *)
(***************************************************************************)
EXTENDS Integers, Sequences, FiniteSets, TLC

VARIABLES game, menu, dom, lastOp

vars == <<game, menu, dom, lastOp>>

-----------------------------------------------------------------------------
(* Bounds of the exploration *)

\* simulated milliseconds explored from the start of a run
MaxTime == 1000
\* live asteroids
MaxAsteroids == 2
\* requestAnimationFrame callbacks queued at once
MaxPending == 1

\* arrow key held during a frame
Keys == {"none", "ArrowUp", "ArrowDown"}

\* frame deltas (ms) handed to update()
Deltas == {500, 1000}

-----------------------------------------------------------------------------
(* Program constants *)

U == 1000000

equilibriumWarp == (22 * U) \div 10
asteroidSpawnInterval == 5000
debrisSpawnInterval == 100
passiveIronInterval == 1000
ironPrice == 50
economyInterval == 1000
collisionRadius == 5
cullDistance == 150
laserRange == 30
particleLifetime == 10000
debrisLifetime == 10000
debrisPerSpawn == 6
flyInDuration == 500 + 1000 + 1500
missionDistance == 100 * U
warpStep == U \div 10
outOfFuelDecay == (2 * U) \div 10
dangerDistance == 40 * U

Min(a, b) == IF a < b THEN a ELSE b
Max(a, b) == IF a > b THEN a ELSE b

-----------------------------------------------------------------------------
(* Upgrade catalog (src/data/*.json as listed in the README) *)

shipsData ==
  { [id |-> "base_ship",   price |-> 0,
     warpMax |-> (65 * U) \div 10, fuelMax |-> 100 * U, cargoMax |-> 20 * U],
    [id |-> "hauler_class", price |-> 5000,
     warpMax |-> (75 * U) \div 10, fuelMax |-> 150 * U, cargoMax |-> 40 * U],
    [id |-> "racer_class",  price |-> 8000,
     warpMax |-> (95 * U) \div 10, fuelMax |-> 120 * U, cargoMax |-> 15 * U] }

weaponsData ==
  { [id |-> "laser_mk1",     price |-> 0,     range |-> 30, power |-> 100],
    [id |-> "laser_mk2",     price |-> 1500,  range |-> 35, power |-> 125],
    [id |-> "laser_mk3",     price |-> 3500,  range |-> 40, power |-> 150],
    [id |-> "plasma_cutter", price |-> 10000, range |-> 45, power |-> 1000] }

enginesData ==
  { [id |-> "standard_drive",   price |-> 0,
     maxWarpSpeed |-> (65 * U) \div 10, fuelEfficiency |-> 100],
    [id |-> "efficient_drive",  price |-> 2000,
     maxWarpSpeed |-> 7 * U,            fuelEfficiency |-> 75],
    [id |-> "advanced_drive",   price |-> 4500,
     maxWarpSpeed |-> 8 * U,            fuelEfficiency |-> 50],
    [id |-> "hyperspace_drive", price |-> 12000,
     maxWarpSpeed |-> 11 * U,           fuelEfficiency |-> 30] }

extractorsData ==
  { [id |-> "basic_collector",   price |-> 0,     collectionMultiplier |-> 100],
    [id |-> "collector_mk2",     price |-> 2500,  collectionMultiplier |-> 150],
    [id |-> "collector_mk3",     price |-> 6000,  collectionMultiplier |-> 200],
    [id |-> "quantum_collector", price |-> 15000, collectionMultiplier |-> 300] }

Categories == {"ships", "weapons", "propulsion", "extractors"}

\* getUpgradeData(): the catalog by station tab
getUpgradeData(category) ==
  CASE category = "ships"      -> shipsData
    [] category = "weapons"    -> weaponsData
    [] category = "propulsion" -> enginesData
    [] category = "extractors" -> extractorsData

categoryToKey(category) ==
  CASE category = "ships"      -> "ship"
    [] category = "weapons"    -> "weapon"
    [] category = "propulsion" -> "engine"
    [] category = "extractors" -> "extractor"

\* Array.prototype.find by id; the empty set stands for undefined
find(data, id) == { x \in data : x.id = id }

\* this.shipsData, weaponsData, enginesData, extractorsData as loadAssets()
\* left them: the catalog less the entries the fetched files lack, and
\* empty after a failed load (every id a gap)
loadedData(g, data) == { x \in data : x.id \notin g.catalogGaps }

\* getWeaponMultiplier answering 1.0 whatever the weapon
getWeaponMultiplier_base(g) == 100

\* weapon.power as a percentage, 1.0 on a lookup miss
getWeaponMultiplier(g) ==
  LET weapon == find(loadedData(g, weaponsData), g.ownedUpgrades.weapon)
  IN  IF weapon = {} THEN 100 ELSE (CHOOSE w \in weapon : TRUE).power

\* getFuelReduction taking a lookup miss for a drive that burns nothing
getFuelReduction_missBurnsNothing(g) ==
  LET engine == find(loadedData(g, enginesData), g.ownedUpgrades.engine)
  IN  IF engine = {} THEN 100 ELSE 100 - (CHOOSE e \in engine : TRUE).fuelEfficiency

\* 1 - engine.fuelEfficiency as a percentage, 0.0 on a lookup miss
getFuelReduction(g) ==
  LET engine == find(loadedData(g, enginesData), g.ownedUpgrades.engine)
  IN  IF engine = {} THEN 0 ELSE 100 - (CHOOSE e \in engine : TRUE).fuelEfficiency

\* extractor.collectionMultiplier as a percentage, 1.0 on a lookup miss
getExtractorMultiplier(g) ==
  LET extractor == find(loadedData(g, extractorsData), g.ownedUpgrades.extractor)
  IN  IF extractor = {} THEN 100
      ELSE (CHOOSE e \in extractor : TRUE).collectionMultiplier

-----------------------------------------------------------------------------
(* Inputs of a frame that the model draws from small sets *)

\* fly-by track of an asteroid relative to the ship: distance (world units)
\* and whether it lies in front of the ship
Track ==
  << [dist |-> 100, front |-> TRUE],
     [dist |-> 32,  front |-> TRUE],
     [dist |-> 20,  front |-> TRUE],
     [dist |-> 3,   front |-> TRUE],
     [dist |-> 8,   front |-> TRUE],
     [dist |-> 20,  front |-> FALSE],
     [dist |-> 160, front |-> FALSE] >>

\* health of a new asteroid: 1.0 + random * 4.0 laser-seconds (ms)
HealthSamples == {1500}

\* <<particleCount, ironAmount>> of an explosion
ExplosionSamples == { <<160, 2 * U>>, <<250, U \div 2>> }

\* passive iron per second: 0.05 + random * 0.1
PassiveSamples == {U \div 10}

\* earliest age (ms) at which debris spawned 40 units ahead can have come
\* within 5 units of the camera, at the largest speed 15 + 11.0 * 3
DebrisMinFlight == ((40 - 5) * 1000) \div (15 + 11 * 3)

distanceTo(a) == Track[a.pos].dist
isInFront(a) == Track[a.pos].front

Ids(seq) == { seq[i].id : i \in 1..Len(seq) }

-----------------------------------------------------------------------------
(* Game: frame loop control *)

\* start(): isRunning = true and one requestAnimationFrame
start(s) ==
  [s EXCEPT !.game.isRunning = TRUE,
            !.dom.rafPending = s.dom.rafPending + 1]

\* stop(): cancelAnimationFrame is handed the bound function, not a request
\* id, so the queued callback stays queued
stop(s) == [s EXCEPT !.game.isRunning = FALSE]

\* pause(): same as stop()
pause(s) == [s EXCEPT !.game.isRunning = FALSE]

\* resume() starting the economy second afresh
resume_freshSecond(s) ==
  IF ~s.game.isRunning
  THEN [s EXCEPT !.game.isRunning = TRUE,
                 !.game.fuelConsumptionTimer = 0,
                 !.dom.rafPending = s.dom.rafPending + 1]
  ELSE s

\* resume(): restarts the loop only when it is not running
resume(s) ==
  IF ~s.game.isRunning
  THEN [s EXCEPT !.game.isRunning = TRUE,
                 !.dom.rafPending = s.dom.rafPending + 1]
  ELSE s

\* gameOver() stopping the loop and showing the modal without raising the flag
gameOver_unflagged(s) ==
  [stop(s) EXCEPT !.dom.gameOverModal = TRUE]

\* gameOver(): flag, stop the loop, show the modal
gameOver(s) ==
  LET s1 == stop([s EXCEPT !.game.isGameOver = TRUE])
  IN  [s1 EXCEPT !.dom.gameOverModal = TRUE]

\* checkGameOverConditions(): <<state, result>>
checkGameOverConditions(s) ==
  IF s.game.shipStats.distance <= 0 /\ ~s.game.isGameOver
  THEN <<gameOver(s), TRUE>>
  ELSE <<s, FALSE>>

-----------------------------------------------------------------------------
(* Game.update and the routines it calls.  in is the frame's input record:  *)
(*   dt        frame delta (ms)                                             *)
(*   up, down  ArrowUp / ArrowDown held                                     *)
(*   adv       ids of the asteroids that reach the next track stage         *)
(*   push      ids of the asteroids a collision pushes to the next stage    *)
(*   health    health of an asteroid spawned in this frame                  *)
(*   boom      <<count, iron>> of an explosion created in this frame        *)
(*   collect   indices of the particle batches within collection range      *)
(*   passed    debris that has flown long enough passes the camera          *)
(*   passive   passive iron amount of this second                           *)

\* showTutorialMessage(message, type, duration): without the page's
\* '#tutorial-message' element nothing happens; with it the one shared element
\* takes the text and is displayed, and a hide timer of the given duration is
\* armed (earlier timers are left pending)
showTutorialMessage(s, message, duration) ==
  IF ~s.dom.messageEl THEN s
  ELSE [s EXCEPT !.dom.message = message,
                 !.dom.messageTimers =
                    @ \cup {[message |-> message, duration |-> duration]}]

\* updateShipAnimation(): the fly-in ends when its 3.0 s have elapsed; manual
\* control is enabled, the UI panel shown (HUD bars follow after 800 ms)
updateShipAnimation(s) ==
  IF ~s.game.isAnimating THEN s
  ELSE IF s.game.time - s.game.animStartTime >= flyInDuration
       THEN LET s1 == IF s.game.tutorialShown.controls THEN s
                       ELSE showTutorialMessage(s, "controls", 7000)
            IN  [s1 EXCEPT !.game.isAnimating = FALSE,
                           !.game.shipDebugMode = TRUE,
                           !.game.tutorialShown.controls = TRUE,
                           !.dom.hudTimer = TRUE]
       ELSE s

\* updateShipDebugControls(): warp +0.1 / -0.1 while the arrow keys are held
updateShipDebugControls(s, in) ==
  LET w0 == s.game.shipStats.warp
      w1 == IF in.up THEN Min(w0 + warpStep, s.game.shipStats.warpMax) ELSE w0
      w2 == IF in.down THEN Max(w1 - warpStep, 0) ELSE w1
  IN  [s EXCEPT !.game.shipStats.warp = w2]

\* economyTick with the fuel subtraction left unclamped
economyTick_fuelUnclamped(s) ==
  LET st == s.game.shipStats
      baseFuelConsumption == st.warp \div 10
      fuelReduction == getFuelReduction(s.game)
      fuelConsumption == (baseFuelConsumption * (100 - fuelReduction)) \div 100
      fuel1 == st.fuel - fuelConsumption
      warpDifference == st.warp - equilibriumWarp
      distance1 == Max(0, st.distance + warpDifference)
      warp1 == IF fuel1 <= 0 THEN Max(0, st.warp - outOfFuelDecay) ELSE st.warp
  IN  [s EXCEPT !.game.shipStats.fuel = fuel1,
                !.game.shipStats.distance = distance1,
                !.game.shipStats.warp = warp1,
                !.game.fuelConsumptionTimer = 0]

\* economyTick with the distance update left unclamped
economyTick_distanceUnclamped(s) ==
  LET st == s.game.shipStats
      baseFuelConsumption == st.warp \div 10
      fuelReduction == getFuelReduction(s.game)
      fuelConsumption == (baseFuelConsumption * (100 - fuelReduction)) \div 100
      fuel1 == Max(0, st.fuel - fuelConsumption)
      warpDifference == st.warp - equilibriumWarp
      distance1 == st.distance + warpDifference
      warp1 == IF fuel1 <= 0 THEN Max(0, st.warp - outOfFuelDecay) ELSE st.warp
  IN  [s EXCEPT !.game.shipStats.fuel = fuel1,
                !.game.shipStats.distance = distance1,
                !.game.shipStats.warp = warp1,
                !.game.fuelConsumptionTimer = 0]

\* economyTick with the distance held at warp 2.0 instead of 2.2
economyTick_equilibriumTwo(s) ==
  LET st == s.game.shipStats
      baseFuelConsumption == st.warp \div 10
      fuelReduction == getFuelReduction(s.game)
      fuelConsumption == (baseFuelConsumption * (100 - fuelReduction)) \div 100
      fuel1 == Max(0, st.fuel - fuelConsumption)
      warpDifference == st.warp - 2 * U
      distance1 == Max(0, st.distance + warpDifference)
      warp1 == IF fuel1 <= 0 THEN Max(0, st.warp - outOfFuelDecay) ELSE st.warp
  IN  [s EXCEPT !.game.shipStats.fuel = fuel1,
                !.game.shipStats.distance = distance1,
                !.game.shipStats.warp = warp1,
                !.game.fuelConsumptionTimer = 0]

\* economyTick moving the distance by the warp left after the out-of-fuel
\* decay
economyTick_decayedWarp(s) ==
  LET st == s.game.shipStats
      baseFuelConsumption == st.warp \div 10
      fuelReduction == getFuelReduction(s.game)
      fuelConsumption == (baseFuelConsumption * (100 - fuelReduction)) \div 100
      fuel1 == Max(0, st.fuel - fuelConsumption)
      warp1 == IF fuel1 <= 0 THEN Max(0, st.warp - outOfFuelDecay) ELSE st.warp
      warpDifference == warp1 - equilibriumWarp
      distance1 == Max(0, st.distance + warpDifference)
  IN  [s EXCEPT !.game.shipStats.fuel = fuel1,
                !.game.shipStats.distance = distance1,
                !.game.shipStats.warp = warp1,
                !.game.fuelConsumptionTimer = 0]

\* economyTick burning warp / 10 whatever the engine
economyTick_noFuelReduction(s) ==
  LET st == s.game.shipStats
      baseFuelConsumption == st.warp \div 10
      fuelConsumption == baseFuelConsumption
      fuel1 == Max(0, st.fuel - fuelConsumption)
      warpDifference == st.warp - equilibriumWarp
      distance1 == Max(0, st.distance + warpDifference)
      warp1 == IF fuel1 <= 0 THEN Max(0, st.warp - outOfFuelDecay) ELSE st.warp
  IN  [s EXCEPT !.game.shipStats.fuel = fuel1,
                !.game.shipStats.distance = distance1,
                !.game.shipStats.warp = warp1,
                !.game.fuelConsumptionTimer = 0]

\* the once-per-second fuel / distance / out-of-fuel step of update()
economyTick(s) ==
  LET st == s.game.shipStats
      baseFuelConsumption == st.warp \div 10
      fuelReduction == getFuelReduction(s.game)
      fuelConsumption == (baseFuelConsumption * (100 - fuelReduction)) \div 100
      fuel1 == Max(0, st.fuel - fuelConsumption)
      warpDifference == st.warp - equilibriumWarp
      distance1 == Max(0, st.distance + warpDifference)
      warp1 == IF fuel1 <= 0 THEN Max(0, st.warp - outOfFuelDecay) ELSE st.warp
  IN  [s EXCEPT !.game.shipStats.fuel = fuel1,
                !.game.shipStats.distance = distance1,
                !.game.shipStats.warp = warp1,
                !.game.fuelConsumptionTimer = 0]

\* spawnAsteroid(): a new asteroid 80-120 units ahead, collision latch unset
spawnAsteroid(s, in) ==
  [s EXCEPT !.game.asteroids =
               Append(@, [id |-> s.game.nextId, pos |-> 1,
                          health |-> in.health, isColliding |-> FALSE]),
            !.game.nextId = @ + 1]

\* the economy and asteroid-spawn block of update() (manual control only)
updateEconomy(s, in) ==
  LET s1 == [s EXCEPT !.game.fuelConsumptionTimer = @ + in.dt]
      s2 == IF s1.game.fuelConsumptionTimer >= economyInterval
            THEN economyTick(s1) ELSE s1
      s3 == [s2 EXCEPT !.game.asteroidSpawnTimer = @ + in.dt]
  IN  IF s3.game.asteroidSpawnTimer >= asteroidSpawnInterval
      THEN [spawnAsteroid(s3, in) EXCEPT !.game.asteroidSpawnTimer = 0]
      ELSE s3

\* createParticleExplosion giving every particle the whole yield
createParticleExplosion_undivided(s, in) ==
  LET particleCount == in.boom[1]
      ironAmount == in.boom[2]
      ironPerParticle == ironAmount
  IN  [s EXCEPT !.game.particles =
                   Append(@, [n |-> particleCount, lifetime |-> particleLifetime,
                              age |-> 0, ironValue |-> ironPerParticle,
                              collected |-> FALSE])]

\* createParticleExplosion(): one batch of count particles, each carrying
\* ironAmount / count
createParticleExplosion(s, in) ==
  LET particleCount == in.boom[1]
      ironAmount == in.boom[2]
      ironPerParticle == ironAmount \div particleCount
  IN  [s EXCEPT !.game.particles =
                   Append(@, [n |-> particleCount, lifetime |-> particleLifetime,
                              age |-> 0, ironValue |-> ironPerParticle,
                              collected |-> FALSE])]

\* the targeting scan of updateAsteroids(): index of the closest asteroid in
\* front, alive and strictly inside the laser range (first one on a tie), or 0
closestAsteroid(asts) ==
  LET ok(i) == distanceTo(asts[i]) < laserRange /\ asts[i].health > 0
               /\ isInFront(asts[i])
      C == { i \in 1..Len(asts) : ok(i) }
  IN  IF C = {} THEN 0
      ELSE CHOOSE i \in C :
             \A j \in C : distanceTo(asts[i]) < distanceTo(asts[j])
                          \/ (distanceTo(asts[i]) = distanceTo(asts[j]) /\ i <= j)

\* the laser part keeping its lock on the asteroid it destroys
updateLaser_staleTarget(s, in) ==
  LET asts == s.game.asteroids
      c == closestAsteroid(asts)
  IN  IF c = 0 THEN [s EXCEPT !.game.currentLaserTarget = 0]
      ELSE
        LET weaponMultiplier == getWeaponMultiplier(s.game)
            h == asts[c].health - (in.dt * weaponMultiplier) \div 100
            target == asts[c].id
        IN  IF h <= 0
            THEN [createParticleExplosion(s, in) EXCEPT
                    !.game.asteroids =
                       SelectSeq(asts, LAMBDA a : a.id # target),
                    !.game.currentLaserTarget = target,
                    !.game.tutorialShown.asteroidDestroyed = TRUE]
            ELSE [s EXCEPT !.game.asteroids[c].health = h,
                           !.game.currentLaserTarget = target]

\* laser part of updateAsteroids(): lock, damage, destroy
updateLaser(s, in) ==
  LET asts == s.game.asteroids
      c == closestAsteroid(asts)
  IN  IF c = 0 THEN [s EXCEPT !.game.currentLaserTarget = 0]
      ELSE
        LET weaponMultiplier == getWeaponMultiplier(s.game)
            h == asts[c].health - (in.dt * weaponMultiplier) \div 100
            target == asts[c].id
            s1 == IF s.game.tutorialShown.asteroidDestroyed THEN s
                  ELSE showTutorialMessage(s, "asteroidDestroyed", 6000)
        IN  IF h <= 0
            THEN [createParticleExplosion(s1, in) EXCEPT
                    !.game.asteroids =
                       SelectSeq(asts, LAMBDA a : a.id # target),
                    !.game.currentLaserTarget = 0,
                    !.game.tutorialShown.asteroidDestroyed = TRUE]
            ELSE [s EXCEPT !.game.asteroids[c].health = h,
                           !.game.currentLaserTarget = target]

\* the per-asteroid loop with the collision latch not consulted
RECURSIVE moveAndCollide_unlatched(_, _, _)
moveAndCollide_unlatched(s, in, i) ==
  IF i > Len(s.game.asteroids) THEN s
  ELSE
    LET a == s.game.asteroids[i]
        pos1 == IF a.id \in in.adv /\ a.pos < Len(Track) THEN a.pos + 1 ELSE a.pos
        hit == Track[pos1].dist < collisionRadius
        damage == s.game.shipStats.warp
        pos2 == IF hit /\ a.id \in in.push THEN pos1 + 1 ELSE pos1
        s1 == IF hit
              THEN [s EXCEPT
                      !.game.shipStats.distance = Max(0, @ - damage),
                      !.game.asteroids[i] =
                         [a EXCEPT !.pos = pos2, !.isColliding = TRUE],
                      !.game.tutorialShown.shieldHit = TRUE,
                      !.game.currentLaserTarget =
                         IF @ = a.id THEN 0 ELSE @]
              ELSE [s EXCEPT !.game.asteroids[i].pos = pos1]
    IN  moveAndCollide_unlatched(s1, in, i + 1)

\* the per-asteroid loop of updateAsteroids(): move, then collide once
RECURSIVE moveAndCollide(_, _, _)
moveAndCollide(s, in, i) ==
  IF i > Len(s.game.asteroids) THEN s
  ELSE
    LET a == s.game.asteroids[i]
        pos1 == IF a.id \in in.adv /\ a.pos < Len(Track) THEN a.pos + 1 ELSE a.pos
        hit == Track[pos1].dist < collisionRadius /\ ~a.isColliding
        damage == s.game.shipStats.warp
        pos2 == IF hit /\ a.id \in in.push THEN pos1 + 1 ELSE pos1
        s0 == IF s.game.tutorialShown.shieldHit THEN s
              ELSE showTutorialMessage(s, "shieldHit", 6000)
        s1 == IF hit
              THEN [s0 EXCEPT
                      !.game.shipStats.distance = Max(0, @ - damage),
                      !.game.asteroids[i] =
                         [a EXCEPT !.pos = pos2, !.isColliding = TRUE],
                      !.game.tutorialShown.shieldHit = TRUE,
                      !.game.currentLaserTarget =
                         IF @ = a.id THEN 0 ELSE @]
              ELSE [s EXCEPT !.game.asteroids[i].pos = pos1]
    IN  moveAndCollide(s1, in, i + 1)

\* updateAsteroids() with an explosion for the asteroids it culls as well
updateAsteroids_cullExplodes(s, in) ==
  LET s1 == updateLaser(s, in)
      s2 == [s1 EXCEPT !.game.asteroids =
                SelectSeq(@, LAMBDA a : ~(distanceTo(a) > cullDistance))]
      s3 == IF Len(s2.game.asteroids) < Len(s1.game.asteroids)
            THEN createParticleExplosion(s2, in) ELSE s2
  IN  moveAndCollide(s3, in, 1)

\* updateAsteroids() with a collision that also costs 0.1 of warp
updateAsteroids_collisionCutsWarp(s, in) ==
  LET s1 == updateLaser(s, in)
      s2 == [s1 EXCEPT !.game.asteroids =
                SelectSeq(@, LAMBDA a : ~(distanceTo(a) > cullDistance))]
      s3 == moveAndCollide(s2, in, 1)
  IN  IF s3.game.shipStats.distance # s.game.shipStats.distance
      THEN [s3 EXCEPT !.game.shipStats.warp = Max(0, @ - warpStep)]
      ELSE s3

\* updateAsteroids(): laser, culling beyond 150 units, movement and collision
updateAsteroids(s, in) ==
  LET s1 == updateLaser(s, in)
      s2 == [s1 EXCEPT !.game.asteroids =
                SelectSeq(@, LAMBDA a : ~(distanceTo(a) > cullDistance))]
  IN  moveAndCollide(s2, in, 1)

\* updateParticles() crediting the iron of a particle that expires
RECURSIVE updateParticlesFrom_expiredPays(_, _, _, _)
updateParticlesFrom_expiredPays(s, in, i, kept) ==
  IF i > Len(s.game.particles) THEN [s EXCEPT !.game.particles = kept]
  ELSE
    LET p == [s.game.particles[i] EXCEPT !.age = @ + in.dt]
        extractorMultiplier == getExtractorMultiplier(s.game)
        ironCollected == (p.ironValue * extractorMultiplier) \div 100
        s1 == [s EXCEPT !.game.shipStats.iron =
                 Min(s.game.shipStats.cargoMax, @ + p.n * ironCollected)]
    IN  IF p.age >= p.lifetime
        THEN updateParticlesFrom_expiredPays(s1, in, i + 1, kept)
        ELSE IF ~p.collected /\ i \in in.collect
        THEN updateParticlesFrom_expiredPays(s1, in, i + 1, kept)
        ELSE updateParticlesFrom_expiredPays(s, in, i + 1, Append(kept, p))

\* updateParticles(): age, expire at the lifetime, collect within range
RECURSIVE updateParticlesFrom(_, _, _, _)
updateParticlesFrom(s, in, i, kept) ==
  IF i > Len(s.game.particles) THEN [s EXCEPT !.game.particles = kept]
  ELSE
    LET p == [s.game.particles[i] EXCEPT !.age = @ + in.dt]
    IN  IF p.age >= p.lifetime
        THEN updateParticlesFrom(s, in, i + 1, kept)
        ELSE IF ~p.collected /\ i \in in.collect
        THEN LET extractorMultiplier == getExtractorMultiplier(s.game)
                 ironCollected == (p.ironValue * extractorMultiplier) \div 100
                 s1 == [s EXCEPT !.game.shipStats.iron =
                          Min(s.game.shipStats.cargoMax, @ + p.n * ironCollected)]
             IN  updateParticlesFrom(s1, in, i + 1, kept)
        ELSE updateParticlesFrom(s, in, i + 1, Append(kept, p))

updateParticles(s, in) == updateParticlesFrom(s, in, 1, << >>)

\* spawnDebrisParticle() x 6
spawnDebris(s) ==
  [s EXCEPT !.game.debrisParticles =
              Append(@, [n |-> debrisPerSpawn, lifetime |-> debrisLifetime,
                         age |-> 0])]

\* updateDebrisParticles(): age, drop at the lifetime or behind the camera
updateDebrisParticles(s, in) ==
  LET aged == [i \in 1..Len(s.game.debrisParticles) |->
                 [s.game.debrisParticles[i] EXCEPT !.age = @ + in.dt]]
      keep(d) == ~(d.age >= d.lifetime
                   \/ (in.passed /\ d.age >= DebrisMinFlight))
  IN  [s EXCEPT !.game.debrisParticles = SelectSeq(aged, keep)]

\* the debris-stream block of update() (manual control only)
updateDebrisStream(s, in) ==
  LET s1 == [s EXCEPT !.game.debrisSpawnTimer = @ + in.dt]
      s2 == IF s1.game.debrisSpawnTimer >= debrisSpawnInterval
            THEN [spawnDebris(s1) EXCEPT !.game.debrisSpawnTimer = 0]
            ELSE s1
      s3 == updateDebrisParticles(s2, in)
      s4 == [s3 EXCEPT !.game.passiveIronTimer = @ + in.dt]
  IN  IF s4.game.passiveIronTimer >= passiveIronInterval
      THEN LET extractorMultiplier == getExtractorMultiplier(s4.game)
               ironCollected == (in.passive * extractorMultiplier) \div 100
           IN  [s4 EXCEPT !.game.shipStats.iron =
                             Min(s4.game.shipStats.cargoMax, @ + ironCollected),
                          !.game.passiveIronTimer = 0]
      ELSE s4

\* cargo-full hint, shown once while the HUD bars are visible
updateHud(s) ==
  IF s.dom.hudBars /\ s.game.shipStats.iron >= s.game.shipStats.cargoMax
     /\ ~s.game.tutorialShown.cargoFull
  THEN [showTutorialMessage(s, "cargoFull", 8000) EXCEPT
          !.game.tutorialShown.cargoFull = TRUE]
  ELSE s

\* danger warning shown once and never withdrawn by a frame
updateDanger_oneShot(s) ==
  IF s.game.shipStats.distance < dangerDistance /\ ~s.game.dangerWarningShown
  THEN [s EXCEPT !.game.dangerWarningShown = TRUE]
  ELSE s

\* danger warning below 40 clicks, withdrawn at 40 or more
updateDanger(s) ==
  IF s.game.shipStats.distance < dangerDistance /\ ~s.game.dangerWarningShown
  THEN [showTutorialMessage(s, "danger", 0) EXCEPT
          !.game.dangerWarningShown = TRUE]
  ELSE IF s.game.shipStats.distance >= dangerDistance /\ s.game.dangerWarningShown
       THEN [s EXCEPT !.game.dangerWarningShown = FALSE,
                      !.dom.message = IF @ = "danger" THEN "none" ELSE @]
       ELSE s

\* update() running the economy block during the fly-in as well
update_cinematicEconomy(s, in) ==
  LET chk == checkGameOverConditions(s)
  IN  IF chk[2] THEN chk[1]
      ELSE
        LET s1 == [s EXCEPT !.game.time = @ + in.dt]
            s2 == IF ~s1.game.shipDebugMode THEN updateShipAnimation(s1)
                  ELSE updateShipDebugControls(s1, in)
            s3 == updateEconomy(s2, in)
            s4 == IF ~s3.game.isGameOver THEN updateAsteroids(s3, in) ELSE s3
            s5 == updateParticles(s4, in)
            s6 == IF s5.game.shipDebugMode THEN updateDebrisStream(s5, in) ELSE s5
            s7 == updateHud(s6)
        IN  IF s7.game.shipDebugMode THEN updateDanger(s7) ELSE s7

\* update(deltaTime)
update(s, in) ==
  LET chk == checkGameOverConditions(s)
  IN  IF chk[2] THEN chk[1]
      ELSE
        LET s1 == [s EXCEPT !.game.time = @ + in.dt]
            s2 == IF ~s1.game.shipDebugMode THEN updateShipAnimation(s1)
                  ELSE updateShipDebugControls(s1, in)
            s3 == IF s2.game.shipDebugMode THEN updateEconomy(s2, in) ELSE s2
            s4 == IF ~s3.game.isGameOver THEN updateAsteroids(s3, in) ELSE s3
            s5 == updateParticles(s4, in)
            s6 == IF s5.game.shipDebugMode THEN updateDebrisStream(s5, in) ELSE s5
            s7 == updateHud(s6)
        IN  IF s7.game.shipDebugMode THEN updateDanger(s7) ELSE s7

\* loop(currentTime): a queued callback runs; it returns at once when the
\* loop is not running, else updates, renders and requests the next frame
loop(s, in) ==
  IF ~s.game.isRunning
  THEN [s EXCEPT !.dom.rafPending = @ - 1]
  ELSE update(s, in)

-----------------------------------------------------------------------------
(* Game: station, upgrades, reset *)

\* openTradingStation paying for whole tons only
openTradingStation_wholeTons(s) ==
  LET s1 == stop(s)
      ironSold == s1.game.shipStats.iron
      cargoValue == (ironSold \div U) * ironPrice
  IN  [s1 EXCEPT !.game.credits = @ + cargoValue,
                 !.game.shipStats.iron = 0,
                 !.dom.stationModal = TRUE]

\* openTradingStation(): stop the loop, sell the cargo, show the station
openTradingStation(s) ==
  LET s1 == stop(s)
      ironSold == s1.game.shipStats.iron
      cargoValue == (ironSold * ironPrice) \div U
  IN  [s1 EXCEPT !.game.credits = @ + cargoValue,
                 !.game.shipStats.iron = 0,
                 !.dom.stationModal = TRUE]

\* closeTradingStation leaving the warp as it was
closeTradingStation_warpKept(s) ==
  LET s1 == [s EXCEPT
               !.dom.stationModal = FALSE,
               !.game.shipStats.fuel = s.game.shipStats.fuelMax,
               !.game.shipStats.distance = missionDistance,
               !.game.fuelConsumptionTimer = 0,
               !.game.debrisSpawnTimer = 0,
               !.game.passiveIronTimer = 0,
               !.game.tutorialShown =
                  [shieldHit |-> FALSE, asteroidDestroyed |-> FALSE,
                   cargoFull |-> FALSE, controls |-> FALSE],
               !.game.dangerWarningShown = FALSE]
  IN  start(s1)

\* closeTradingStation(): hide the station, reset the mission stats, timers
\* and one-shot latches, start the loop
closeTradingStation(s) ==
  LET s1 == [s EXCEPT
               !.dom.stationModal = FALSE,
               !.dom.message = "none",
               !.game.shipStats.fuel = s.game.shipStats.fuelMax,
               !.game.shipStats.distance = missionDistance,
               !.game.shipStats.warp = (22 * U) \div 10,
               !.game.fuelConsumptionTimer = 0,
               !.game.debrisSpawnTimer = 0,
               !.game.passiveIronTimer = 0,
               !.game.tutorialShown =
                  [shieldHit |-> FALSE, asteroidDestroyed |-> FALSE,
                   cargoFull |-> FALSE, controls |-> FALSE],
               !.game.dangerWarningShown = FALSE]
  IN  start(s1)

\* purchaseUpgrade without the credits test
purchaseUpgrade_unchecked(s, category, item) ==
  LET s1 == [s EXCEPT !.game.credits = @ - item.price,
                      !.game.ownedUpgrades[categoryToKey(category)] = item.id]
  IN  IF category = "ships"
      THEN [s1 EXCEPT !.game.shipStats.warpMax = item.warpMax,
                      !.game.shipStats.fuelMax = item.fuelMax,
                      !.game.shipStats.cargoMax = item.cargoMax,
                      !.game.shipStats.fuel = item.fuelMax]
      ELSE IF category = "propulsion"
      THEN [s1 EXCEPT !.game.shipStats.warpMax = item.maxWarpSpeed]
      ELSE s1

\* purchaseUpgrade leaving the fuel as it was on a ship purchase
purchaseUpgrade_noRefill(s, category, item) ==
  IF s.game.credits < item.price THEN s
  ELSE
    LET s1 == [s EXCEPT !.game.credits = @ - item.price,
                        !.game.ownedUpgrades[categoryToKey(category)] = item.id]
    IN  IF category = "ships"
        THEN [s1 EXCEPT !.game.shipStats.warpMax = item.warpMax,
                        !.game.shipStats.fuelMax = item.fuelMax,
                        !.game.shipStats.cargoMax = item.cargoMax]
        ELSE IF category = "propulsion"
        THEN [s1 EXCEPT !.game.shipStats.warpMax = item.maxWarpSpeed]
        ELSE s1

\* purchaseUpgrade(category, item)
purchaseUpgrade(s, category, item) ==
  IF s.game.credits < item.price THEN s
  ELSE
    LET s1 == [s EXCEPT !.game.credits = @ - item.price,
                        !.game.ownedUpgrades[categoryToKey(category)] = item.id]
    IN  IF category = "ships"
        THEN [s1 EXCEPT !.game.shipStats.warpMax = item.warpMax,
                        !.game.shipStats.fuelMax = item.fuelMax,
                        !.game.shipStats.cargoMax = item.cargoMax,
                        !.game.shipStats.fuel = item.fuelMax]
        ELSE IF category = "propulsion"
        THEN [s1 EXCEPT !.game.shipStats.warpMax = item.maxWarpSpeed]
        ELSE s1

\* the ShipState literal of the constructor and of resetGame()
baseShipStats ==
  [warp |-> (22 * U) \div 10, warpMax |-> (65 * U) \div 10,
   fuel |-> 100 * U, fuelMax |-> 100 * U,
   iron |-> 0, cargoMax |-> 20 * U, distance |-> 100 * U]

\* resetGame()
resetGame(s) ==
  [s EXCEPT !.game.isGameOver = FALSE,
            !.game.shipStats = baseShipStats,
            !.game.fuelConsumptionTimer = 0,
            !.game.asteroidSpawnTimer = 0,
            !.game.asteroids = << >>,
            !.game.particles = << >>,
            !.game.debrisParticles = << >>,
            !.game.currentLaserTarget = 0,
            !.game.isAnimating = FALSE,
            !.game.animStartTime = 0,
            !.game.shipDebugMode = FALSE,
            !.dom.hudBars = FALSE]

\* startShipFlyIn()
startShipFlyIn(s) ==
  IF s.game.isAnimating THEN s
  ELSE [s EXCEPT !.game.isAnimating = TRUE,
                 !.game.animStartTime = s.game.time]

-----------------------------------------------------------------------------
(* MenuManager *)

\* showControlsModal(): pauses a started game
showControlsModal(s) ==
  LET s1 == [s EXCEPT !.dom.controlsModal = TRUE]
  IN  IF s.menu.isGameStarted THEN pause(s1) ELSE s1

\* hideControlsModal(): resumes a started game
hideControlsModal(s) ==
  LET s1 == [s EXCEPT !.dom.controlsModal = FALSE]
  IN  IF s.menu.isGameStarted THEN resume(s1) ELSE s1

\* the document keydown listener: Escape toggles the controls modal
onEscape(s) ==
  IF s.dom.controlsModal THEN hideControlsModal(s)
  ELSE IF s.menu.isGameStarted THEN showControlsModal(s)
  ELSE s

\* the rest of startGame() once the game is initialised: start the loop,
\* start the fly-in, flag the game as started
startGameTail(s) ==
  [startShipFlyIn(start(s)) EXCEPT !.menu.isGameStarted = TRUE]

\* startGame(), a single click with nothing delivered while it awaits
startGame(s) ==
  IF s.menu.isGameStarted THEN s
  ELSE
    LET s1 == [s EXCEPT !.dom.menuHidden = TRUE,
                        !.game.isInitialized = TRUE,
                        !.game.inits = IF s.game.isInitialized THEN @ ELSE @ + 1]
    IN  startGameTail(s1)

\* returnToMenu(): pause, show the menu
returnToMenu(s) ==
  [pause(s) EXCEPT !.dom.menuHidden = FALSE,
                   !.menu.isGameStarted = FALSE]

\* the Space keydown callback registered by setupInput()
onSpace(s) ==
  IF s.game.isRunning /\ s.game.shipDebugMode /\ ~s.game.isGameOver
  THEN openTradingStation(s)
  ELSE s

-----------------------------------------------------------------------------
(* Initial states: the constructed game, and missions in progress *)

\* new Game(), new MenuManager(), the page as loaded
Fresh ==
  [game |->
     [isRunning |-> FALSE, isInitialized |-> FALSE, inits |-> 0,
      shipDebugMode |-> FALSE,
      time |-> 0, shipStats |-> baseShipStats, credits |-> 0,
      ownedUpgrades |-> [ship |-> "base_ship", weapon |-> "laser_mk1",
                         engine |-> "standard_drive",
                         extractor |-> "basic_collector"],
      catalogGaps |-> {},
      gameObjects |-> << >>,
      fuelConsumptionTimer |-> 0, asteroidSpawnTimer |-> 0,
      debrisSpawnTimer |-> 0, passiveIronTimer |-> 0,
      asteroids |-> << >>, nextId |-> 1, currentLaserTarget |-> 0,
      particles |-> << >>, debrisParticles |-> << >>,
      isGameOver |-> FALSE,
      tutorialShown |-> [shieldHit |-> FALSE, asteroidDestroyed |-> FALSE,
                         cargoFull |-> FALSE, controls |-> FALSE],
      dangerWarningShown |-> FALSE,
      isAnimating |-> FALSE, animStartTime |-> 0],
   menu |-> [isGameStarted |-> FALSE, starting |-> [music |-> 0, init |-> 0]],
   dom |-> [rafPending |-> 0, controlsModal |-> FALSE, stationModal |-> FALSE,
            gameOverModal |-> FALSE, hudBars |-> FALSE, hudTimer |-> FALSE,
            menuHidden |-> FALSE, messageEl |-> FALSE, message |-> "none",
            messageTimers |-> {}]]

\* game time (ms) at which the missions in progress are picked up
SnapTime == 10 * 60 * 1000

\* a mission in progress: the game started, the fly-in over, the loop running
Mission(p) ==
  [Fresh EXCEPT
     !.game.isRunning = TRUE, !.game.isInitialized = TRUE, !.game.inits = 1,
     !.game.shipDebugMode = TRUE, !.game.time = SnapTime,
     !.game.shipStats = p.shipStats, !.game.credits = p.credits,
     !.game.ownedUpgrades = p.ownedUpgrades,
     !.game.asteroidSpawnTimer = p.asteroidSpawnTimer,
     !.game.asteroids = p.asteroids,
     !.game.nextId = Len(p.asteroids) + 1,
     !.game.particles = p.particles,
     !.game.debrisParticles = p.debrisParticles,
     !.game.tutorialShown =
        [shieldHit |-> FALSE, asteroidDestroyed |-> p.particles # << >>,
         cargoFull |-> p.shipStats.iron >= p.shipStats.cargoMax,
         controls |-> TRUE],
     !.game.dangerWarningShown = p.shipStats.distance < dangerDistance,
     !.menu.isGameStarted = TRUE,
     !.dom.rafPending = 1, !.dom.hudBars = TRUE, !.dom.menuHidden = TRUE]

starterUpgrades == Fresh.game.ownedUpgrades

quiet ==
  [shipStats |-> baseShipStats, credits |-> 0, ownedUpgrades |-> starterUpgrades,
   asteroidSpawnTimer |-> 0, asteroids |-> << >>, particles |-> << >>,
   debrisParticles |-> << >>]

oneAsteroid == << [id |-> 1, pos |-> 3, health |-> 1000, isColliding |-> FALSE] >>

oneBatch ==
  << [n |-> 160, lifetime |-> particleLifetime, age |-> 9000,
      ironValue |-> (2 * U) \div 160, collected |-> FALSE] >>

oneDebris == << [n |-> debrisPerSpawn, lifetime |-> debrisLifetime, age |-> 500] >>

fourBatches ==
  [i \in 1..4 |-> [n |-> 160, lifetime |-> particleLifetime, age |-> 500 * i,
                   ironValue |-> (2 * U) \div 160, collected |-> FALSE]]

\* Mining Laser Mk III fitted, an asteroid in laser range
asteroidInRange ==
  [quiet EXCEPT !.ownedUpgrades.weapon = "laser_mk3",
     !.asteroids = oneAsteroid]

\* Mining Laser Mk II fitted, an asteroid 32 units ahead, an explosion's
\* particles drifting
beyondBaseRange ==
  [quiet EXCEPT !.ownedUpgrades.weapon = "laser_mk2",
     !.asteroids =
        << [id |-> 1, pos |-> 2, health |-> 1000, isColliding |-> FALSE] >>,
     !.particles = oneBatch]

\* close to the horizon, two asteroids approaching
nearHorizon ==
  [quiet EXCEPT !.shipStats.distance = 3 * U,
     !.asteroids = oneAsteroid \o
        << [id |-> 2, pos |-> 3, health |-> 1500, isColliding |-> FALSE] >>]

\* one twentieth from the horizon
atHorizon ==
  [quiet EXCEPT !.shipStats.distance = U \div 20]

\* nearly out of fuel at warp 3.0, debris in flight, a spawn due
lowFuel ==
  [quiet EXCEPT !.shipStats.fuel = U \div 20, !.shipStats.warp = 3 * U,
     !.debrisParticles = oneDebris,
     !.asteroidSpawnTimer = 4500]

\* out of fuel, warp decayed to 0.1, inside the danger zone
outOfFuel ==
  [quiet EXCEPT !.shipStats.fuel = 0, !.shipStats.warp = U \div 10,
     !.shipStats.distance = 30 * U]

\* hold nearly full, an explosion's particles drifting
holdFull ==
  [quiet EXCEPT !.shipStats.iron = 20 * U - U \div 50,
     !.particles = oneBatch]

\* an explosion's particles half a second from the end of their lifetime
oldBatch ==
  << [n |-> 160, lifetime |-> particleLifetime, age |-> 9500,
      ironValue |-> (2 * U) \div 160, collected |-> FALSE] >>

\* an odd cargo that brings the credits to the price of an engine, an
\* explosion's particles about to expire
oddCargo ==
  [quiet EXCEPT !.shipStats.iron = (123 * U) \div 100 + 4567,
     !.credits = 1940, !.shipStats.warp = (65 * U) \div 10,
     !.particles = oldBatch]

\* hyperspace drive fitted, climbing out of the danger zone at warp 11.0
hyperspace ==
  [quiet EXCEPT !.ownedUpgrades.engine = "hyperspace_drive",
     !.shipStats.warpMax = 11 * U, !.shipStats.warp = 11 * U,
     !.shipStats.distance = 38 * U,
     !.shipStats.fuel = 60 * U]

\* hauler with the quantum collector, four explosions' particles drifting
haulerQuantum ==
  [quiet EXCEPT !.ownedUpgrades.ship = "hauler_class",
     !.ownedUpgrades.extractor = "quantum_collector",
     !.shipStats.warpMax = (75 * U) \div 10,
     !.shipStats.fuelMax = 150 * U,
     !.shipStats.fuel = 90 * U,
     !.shipStats.cargoMax = 40 * U,
     !.particles = fourBatches]

\* missions in progress the model starts from
Snapshots ==
  { asteroidInRange,
    beyondBaseRange,
    nearHorizon,
    atHorizon,
    lowFuel,
    outOfFuel,
    holdFull,
    oddCargo,
    hyperspace,
    haulerQuantum }

NoPre ==
  [shipStats |-> baseShipStats, credits |-> 0,
   ownedUpgrades |-> Fresh.game.ownedUpgrades, isRunning |-> FALSE,
   tutorialShown |-> Fresh.game.tutorialShown, dangerWarningShown |-> FALSE,
   gameObjects |-> << >>]

\* lastOp records the last station, reset or pool operation, its arguments, and the
\* ShipState, credits, upgrades, loop flag, latches and game-object pool it
\* started from; any other step clears it
NoOp == [name |-> "none", arg |-> << >>, pre |-> NoPre]

Op(name, arg, s) ==
  [name |-> name, arg |-> arg,
   pre |-> [shipStats |-> s.game.shipStats, credits |-> s.game.credits,
            ownedUpgrades |-> s.game.ownedUpgrades,
            isRunning |-> s.game.isRunning,
            tutorialShown |-> s.game.tutorialShown,
            dangerWarningShown |-> s.game.dangerWarningShown,
            gameObjects |-> s.game.gameObjects]]

State == [game |-> game, menu |-> menu, dom |-> dom]

Becomes(s) ==
  /\ s.dom.rafPending <= MaxPending
  /\ game' = s.game
  /\ menu' = s.menu
  /\ dom' = s.dom

Init ==
  /\ \E s \in {Fresh} \cup { Mission(p) : p \in Snapshots } :
       /\ game = s.game
       /\ menu = s.menu
       /\ dom = s.dom
  /\ lastOp = NoOp

-----------------------------------------------------------------------------
(* Actions *)

\* frames are explored up to MaxTime ms of game time into a mission (counted
\* from the end of the fly-in, or from the point a mission in progress is
\* picked up); a frame that ends at the terminal check does not advance the
\* clock
WithinHorizon(dt) ==
  \/ checkGameOverConditions(State)[2]
  \/ game.time + dt <= (IF game.time >= SnapTime THEN SnapTime
                         ELSE flyInDuration) + MaxTime

\* a queued animation-frame callback runs while the loop is running
Frame ==
  /\ dom.rafPending > 0
  /\ game.isRunning
  /\ \E dt \in Deltas :
       /\ WithinHorizon(dt)
       /\ Len(game.asteroids) < MaxAsteroids
          \/ game.asteroidSpawnTimer + dt < asteroidSpawnInterval
       /\ \E key \in (IF game.shipDebugMode THEN Keys ELSE {"none"}),
             adv \in SUBSET Ids(game.asteroids),
             push \in (IF \E i \in 1..Len(game.asteroids) :
                              ~game.asteroids[i].isColliding
                       THEN {{}, Ids(game.asteroids)} ELSE {{}}),
             health \in (IF game.asteroidSpawnTimer + dt >= asteroidSpawnInterval
                         THEN HealthSamples ELSE {1500}),
             boom \in (IF closestAsteroid(game.asteroids) # 0
                       THEN ExplosionSamples
                       ELSE {<<160, 2 * U>>}),
             collect \in {{}, 1..Len(game.particles)},
             passed \in (IF game.debrisParticles # << >> THEN BOOLEAN
                         ELSE {FALSE}),
             passive \in (IF game.passiveIronTimer + dt >= passiveIronInterval
                          THEN PassiveSamples ELSE {U \div 10}) :
            Becomes(loop(State, [dt |-> dt, up |-> key = "ArrowUp",
                                 down |-> key = "ArrowDown",
                                 adv |-> adv, push |-> push, health |-> health,
                                 boom |-> boom, collect |-> collect,
                                 passed |-> passed, passive |-> passive]))
  /\ lastOp' = NoOp

\* a queued callback runs after the loop was stopped: it returns at once
StaleFrame ==
  /\ dom.rafPending > 0
  /\ ~game.isRunning
  /\ Becomes([State EXCEPT !.dom.rafPending = @ - 1])
  /\ lastOp' = NoOp

\* the 800 ms timer of showUIPanel() shows the HUD bars
HudTimer ==
  /\ dom.hudTimer
  /\ Becomes([State EXCEPT !.dom.hudBars = TRUE, !.dom.hudTimer = FALSE])
  /\ lastOp' = NoOp

\* click on Start in the menu
StartClick ==
  /\ ~dom.menuHidden
  /\ Becomes(startGame(State))
  /\ lastOp' = NoOp

\* click on Controls in the menu
ControlsClick ==
  /\ ~dom.menuHidden
  /\ ~dom.controlsModal
  /\ Becomes(showControlsModal(State))
  /\ lastOp' = NoOp

\* click on the close button of the controls modal, or beside the modal
ModalCloseClick ==
  /\ dom.controlsModal
  /\ Becomes(hideControlsModal(State))
  /\ lastOp' = NoOp

\* Escape key
EscapeKey ==
  /\ dom.controlsModal \/ menu.isGameStarted
  /\ Becomes(onEscape(State))
  /\ lastOp' = NoOp

\* click on Return to Menu in the controls modal of a started game
ReturnToMenuClick ==
  /\ menu.isGameStarted
  /\ dom.controlsModal
  /\ Becomes(returnToMenu(State))
  /\ lastOp' = NoOp

\* Space key, once init() has registered the callback
SpaceKey ==
  /\ game.isInitialized
  /\ Becomes(onSpace(State))
  /\ lastOp' = IF game.isRunning /\ game.shipDebugMode /\ ~game.isGameOver
                THEN Op("openTradingStation", << >>, State)
                ELSE lastOp

\* click on the station's return button
StationReturnClick ==
  /\ dom.stationModal
  /\ Becomes(closeTradingStation(State))
  /\ lastOp' = Op("closeTradingStation", << >>, State)

\* click on an enabled BUY button of the station
BuyClick ==
  /\ dom.stationModal
  /\ \E category \in Categories :
       \E item \in getUpgradeData(category) :
         /\ game.ownedUpgrades[categoryToKey(category)] # item.id
         /\ game.credits >= item.price
         /\ Becomes(purchaseUpgrade(State, category, item))
         /\ lastOp' = Op("purchaseUpgrade", <<category, item.id>>, State)

\* click on the restart button of the game-over modal
RestartClick ==
  /\ dom.gameOverModal
  /\ Becomes([resetGame(State) EXCEPT !.dom.gameOverModal = FALSE])
  /\ lastOp' = Op("resetGame", << >>, State)

Next ==
  \/ Frame
  \/ StaleFrame
  \/ HudTimer
  \/ StartClick
  \/ ControlsClick
  \/ ModalCloseClick
  \/ EscapeKey
  \/ ReturnToMenuClick
  \/ SpaceKey
  \/ StationReturnClick
  \/ BuyClick
  \/ RestartClick

Spec == Init /\ [][Next]_vars

-----------------------------------------------------------------------------
(* purchaseUpgrade called with any catalog item *)

\* credits the ship has docked with
CreditSamples == {0, 1499, 1500, 5000, 8000}

\* the ship docked at the station
Docked(p, credits) ==
  openTradingStation([Mission(p) EXCEPT !.game.credits = credits])

PurchaseInit ==
  /\ \E p \in {lowFuel, hyperspace, haulerQuantum}, credits \in CreditSamples :
       /\ game = Docked(p, credits).game
       /\ menu = Docked(p, credits).menu
       /\ dom = Docked(p, credits).dom
  /\ lastOp = NoOp

\* purchaseUpgrade(category, item) with any item of the catalog, affordable
\* or not, owned or not
PurchaseCall ==
  /\ dom.stationModal
  /\ \E category \in Categories :
       \E item \in getUpgradeData(category) :
         /\ Becomes(purchaseUpgrade(State, category, item))
         /\ lastOp' = Op("purchaseUpgrade", <<category, item.id>>, State)

PurchaseSpec == PurchaseInit /\ [][PurchaseCall]_vars

-----------------------------------------------------------------------------
(* update() driven by frame deltas that do not divide the economy interval *)

\* simulated milliseconds of uneven frames explored
CadenceHorizon == 3000

\* frame deltas (ms): two that do not divide one second, one whole second,
\* and one long frame (a stalled or hidden tab)
UnevenDeltas == {400, 600, 1000, 2000}

\* a mission under manual control with empty space around the ship
CadenceInit ==
  /\ game = Mission(quiet).game
  /\ menu = Mission(quiet).menu
  /\ dom = Mission(quiet).dom
  /\ lastOp = NoOp

\* a queued animation-frame callback runs, no key held
CadenceFrame ==
  /\ dom.rafPending > 0
  /\ game.isRunning
  /\ \E dt \in UnevenDeltas :
       /\ game.time + dt <= SnapTime + CadenceHorizon
       /\ \E passed \in (IF game.debrisParticles # << >> THEN BOOLEAN
                         ELSE {FALSE}),
             passive \in PassiveSamples :
            Becomes(loop(State, [dt |-> dt, up |-> FALSE, down |-> FALSE,
                                 adv |-> {}, push |-> {}, health |-> 1500,
                                 boom |-> <<160, 2 * U>>, collect |-> {},
                                 passed |-> passed, passive |-> passive]))
  /\ lastOp' = NoOp

CadenceSpec == CadenceInit /\ [][CadenceFrame]_vars

-----------------------------------------------------------------------------
(* update() with upgrade catalogs that lack the owned items *)

\* every id of the upgrade catalog
CatalogIds ==
  { x.id : x \in shipsData } \cup { x.id : x \in weaponsData }
    \cup { x.id : x \in enginesData } \cup { x.id : x \in extractorsData }

\* what loadAssets() can leave missing: everything (the fetch failed, the
\* four catalogs are []), or the entry of one owned starter item
GapSamples ==
  { CatalogIds, {"laser_mk1"}, {"standard_drive"}, {"basic_collector"} }

\* missions on the starter items: an asteroid under the laser, the fuel
\* nearly out, particles drifting by a nearly full hold
MissInit ==
  /\ \E p \in { [asteroidInRange EXCEPT !.ownedUpgrades = starterUpgrades],
                 lowFuel, holdFull },
        gaps \in GapSamples :
       LET s == [Mission(p) EXCEPT !.game.catalogGaps = gaps]
       IN  /\ game = s.game
           /\ menu = s.menu
           /\ dom = s.dom
  /\ lastOp = NoOp

MissSpec == MissInit /\ [][Frame]_vars

-----------------------------------------------------------------------------
(* update() out of fuel, several frames to the second, the warp keys live *)

\* simulated milliseconds explored out of fuel
DecayHorizon == 2000

\* frame deltas (ms) of four and of two frames to the second
QuickDeltas == {250, 500}

\* out of fuel at warp 0.1, an economy step just done
DecayInit ==
  /\ game = Mission(outOfFuel).game
  /\ menu = Mission(outOfFuel).menu
  /\ dom = Mission(outOfFuel).dom
  /\ lastOp = NoOp

\* a queued animation-frame callback runs, any arrow key held
DecayFrame ==
  /\ dom.rafPending > 0
  /\ game.isRunning
  /\ \E dt \in QuickDeltas, key \in Keys :
       /\ game.time + dt <= SnapTime + DecayHorizon
       /\ Becomes(loop(State, [dt |-> dt, up |-> key = "ArrowUp",
                               down |-> key = "ArrowDown",
                               adv |-> {}, push |-> {}, health |-> 1500,
                               boom |-> <<160, 2 * U>>, collect |-> {},
                               passed |-> FALSE, passive |-> U \div 10]))
  /\ lastOp' = NoOp

DecaySpec == DecayInit /\ [][DecayFrame]_vars

-----------------------------------------------------------------------------
(* Asteroids leaving the pool: shot, culled, flushed *)

\* two clicks from the horizon, an asteroid ahead in laser range and one
\* that has passed the ship and drifts away behind it
drifting ==
  [quiet EXCEPT !.shipStats.distance = 2 * U,
     !.asteroids = oneAsteroid \o
        << [id |-> 2, pos |-> 6, health |-> 1500, isColliding |-> FALSE] >>]

LifecycleInit ==
  /\ \E p \in {drifting, nearHorizon} :
       /\ game = Mission(p).game
       /\ menu = Mission(p).menu
       /\ dom = Mission(p).dom
  /\ lastOp = NoOp

\* frames, and the restart after game over
LifecycleSpec == LifecycleInit /\ [][Frame \/ RestartClick]_vars

-----------------------------------------------------------------------------
(* Notifications: a page that has the '#tutorial-message' element           *)

\* a hide timer armed by showTutorialMessage fires: the shared element is
\* hidden, whatever it shows by now
MessageTimer ==
  /\ \E t \in dom.messageTimers :
       Becomes([State EXCEPT !.dom.message = "none",
                             !.dom.messageTimers = @ \ {t}])
  /\ lastOp' = NoOp

\* a mission just above the danger zone, two asteroids about to hit the
\* ship, on a page with the message element, nothing shown yet
NoticeInit ==
  /\ LET m == Mission([nearHorizon EXCEPT !.shipStats.distance = 41 * U])
     IN  /\ game = m.game
         /\ menu = m.menu
         /\ dom = [m.dom EXCEPT !.messageEl = TRUE]
  /\ lastOp = NoOp

\* frames, hide timers, the hyperjump to the station and the return from it
NoticeSpec ==
  NoticeInit
  /\ [][Frame \/ StaleFrame \/ MessageTimer \/ SpaceKey \/ StationReturnClick]_vars

-----------------------------------------------------------------------------
(* Loop chains: callbacks queued by start and resume while one is pending   *)

\* queued animation-frame callbacks explored
MaxChains == 2

\* the next state, with up to MaxChains callbacks queued
Queues(s) ==
  /\ s.dom.rafPending <= MaxChains
  /\ game' = s.game
  /\ menu' = s.menu
  /\ dom' = s.dom
  /\ lastOp' = NoOp

ChainInit ==
  /\ game = Mission(quiet).game
  /\ menu = Mission(quiet).menu
  /\ dom = Mission(quiet).dom
  /\ lastOp = NoOp

\* a queued callback runs while the loop is running; a second callback of
\* the same animation frame is handed the same timestamp (delta 0)
ChainFrame ==
  /\ dom.rafPending > 0
  /\ game.isRunning
  /\ \E dt \in (IF dom.rafPending > 1 THEN {0} ELSE {}) \cup Deltas :
       /\ WithinHorizon(dt)
       /\ Queues(loop(State, [dt |-> dt, up |-> FALSE, down |-> FALSE,
                              adv |-> {}, push |-> {}, health |-> 1500,
                              boom |-> <<160, 2 * U>>, collect |-> {},
                              passed |-> FALSE, passive |-> U \div 10]))

\* a queued callback runs after stop() or pause(): it returns at once
ChainStale ==
  /\ dom.rafPending > 0
  /\ ~game.isRunning
  /\ Queues([State EXCEPT !.dom.rafPending = @ - 1])

\* Escape: pause() on opening the controls modal, resume() on closing it
ChainEscape ==
  /\ dom.controlsModal \/ menu.isGameStarted
  /\ Queues(onEscape(State))

\* Space: openTradingStation() and its stop()
ChainSpace ==
  /\ game.isRunning /\ game.shipDebugMode /\ ~game.isGameOver
  /\ Queues(onSpace(State))

\* the station's return button: closeTradingStation() and its start()
ChainReturn ==
  /\ dom.stationModal
  /\ Queues(closeTradingStation(State))

ChainSpec ==
  ChainInit
  /\ [][ChainFrame \/ ChainStale \/ ChainEscape \/ ChainSpace \/ ChainReturn]_vars

-----------------------------------------------------------------------------
(* startGame() as the asynchronous function it is: clicks while it awaits   *)

\* startGame() calls in flight explored
MaxClicks == 2

\* a click on Start, also one dispatched while an earlier startGame() is
\* still awaiting: past the isGameStarted test the menu is hidden and the
\* call awaits the music
AsyncStartClick ==
  /\ ~menu.isGameStarted
  /\ menu.starting.music + menu.starting.init < MaxClicks
  /\ Queues([State EXCEPT !.dom.menuHidden = TRUE,
                          !.menu.starting.music = @ + 1])

\* playMusic() settles for one call: a game not yet initialised gets
\* init() (its setup run, then the await of the assets); an initialised
\* one is started
MusicDone ==
  /\ menu.starting.music > 0
  /\ IF ~game.isInitialized
     THEN Queues([State EXCEPT !.menu.starting.music = @ - 1,
                               !.menu.starting.init = @ + 1,
                               !.game.inits = @ + 1])
     ELSE Queues(startGameTail([State EXCEPT !.menu.starting.music = @ - 1]))

\* init() settles for one call: isInitialized is set and the call goes on
\* to start the loop and the fly-in
InitDone ==
  /\ menu.starting.init > 0
  /\ Queues(startGameTail([State EXCEPT !.menu.starting.init = @ - 1,
                                        !.game.isInitialized = TRUE]))

\* the page as loaded; clicks on Start, the awaits settling, frames
AsyncSpec ==
  /\ game = Fresh.game /\ menu = Fresh.menu /\ dom = Fresh.dom /\ lastOp = NoOp
  /\ [][AsyncStartClick \/ MusicDone \/ InitDone \/ ChainFrame]_vars

-----------------------------------------------------------------------------
(* A mission left alone: no key is pressed, frames keep coming               *)

\* the last units of fuel at the equilibrium warp, some twenty clicks out
LiveInit ==
  /\ \E f \in 1..2, d \in {16, 20, 24} :
       LET m == Mission([quiet EXCEPT !.shipStats.fuel = f * U,
                                      !.shipStats.distance = d * U])
       IN  game = m.game /\ menu = m.menu /\ dom = m.dom
  /\ lastOp = NoOp

\* a queued animation-frame callback runs a second after the one
\* before, no key held; every asteroid moves on in every frame, a new one
\* has the least health (shot before it reaches the ship) or more
LiveFrame ==
  /\ dom.rafPending > 0
  /\ game.isRunning
  /\ \E dt \in {1000} :
       /\ Len(game.asteroids) < MaxAsteroids
          \/ game.asteroidSpawnTimer + dt < asteroidSpawnInterval
       /\ \E push \in (IF \E i \in 1..Len(game.asteroids) :
                              ~game.asteroids[i].isColliding
                       THEN {{}, Ids(game.asteroids)} ELSE {{}}),
             health \in (IF game.asteroidSpawnTimer + dt >= asteroidSpawnInterval
                         THEN {1000, 1500} ELSE {1500}),
             collect \in {{}, 1..Len(game.particles)} :
            Becomes(loop(State, [dt |-> dt, up |-> FALSE, down |-> FALSE,
                                 adv |-> Ids(game.asteroids), push |-> push,
                                 health |-> health, boom |-> <<160, 2 * U>>,
                                 collect |-> collect, passed |-> FALSE,
                                 passive |-> U \div 10]))
  /\ lastOp' = NoOp

\* a callback is queued and the loop is running: the frame action is enabled
FrameDue == dom.rafPending > 0 /\ game.isRunning

\* the browser keeps running the queued callbacks: weak fairness of the frame
\* action, WF_vars(LiveFrame), written out with the action's guard for its
\* enabledness and with the change every frame makes to the game for its
\* occurrence (every step of this specification is a frame)
LiveSpec ==
  /\ LiveInit
  /\ [][LiveFrame]_vars
  /\ ([]<>(~FrameDue) \/ []<><<game' # game>>_vars)

-----------------------------------------------------------------------------
(* The game-object pool: addGameObject, removeGameObject, removeFromArray *)

\* entries a pool holds at most
MaxObjects == 4

\* game objects handed to the pool operations
Entities == {"a", "b", "c"}

\* Array.prototype.indexOf, positions counted from 1; 0 stands for -1
indexOf(array, item) ==
  IF \E i \in 1..Len(array) : array[i] = item
  THEN CHOOSE i \in 1..Len(array) :
         /\ array[i] = item
         /\ \A k \in 1..(i - 1) : array[k] # item
  ELSE 0

\* array.splice(index, 1) at a position from 1 on
splice(array, index) ==
  SubSeq(array, 1, index - 1) \o SubSeq(array, index + 1, Len(array))

\* GameUtils.removeFromArray(array, item)
removeFromArray(array, item) ==
  LET index == indexOf(array, item)
  IN  IF index > 0 THEN splice(array, index) ELSE array

\* addGameObject(gameObject)
addGameObject(s, gameObject) ==
  [s EXCEPT !.game.gameObjects = Append(@, gameObject)]

\* removeGameObject splicing whatever indexOf answers: splice(-1, 1) takes
\* the last element
removeGameObject_unguarded(s, gameObject) ==
  LET index == indexOf(s.game.gameObjects, gameObject)
  IN  [s EXCEPT !.game.gameObjects =
                   IF index > 0 THEN splice(@, index)
                   ELSE SubSeq(@, 1, Len(@) - 1)]

\* removeGameObject(gameObject)
removeGameObject(s, gameObject) ==
  LET index == indexOf(s.game.gameObjects, gameObject)
  IN  IF index > 0
      THEN [s EXCEPT !.game.gameObjects = splice(@, index)]
      ELSE s

AddGameObject ==
  /\ Len(game.gameObjects) < MaxObjects
  /\ \E gameObject \in Entities :
       /\ Becomes(addGameObject(State, gameObject))
       /\ lastOp' = Op("addGameObject", << gameObject >>, State)

RemoveGameObject ==
  \E gameObject \in Entities :
     /\ Becomes(removeGameObject(State, gameObject))
     /\ lastOp' = Op("removeGameObject", << gameObject >>, State)

\* GameUtils.removeFromArray applied to the pool
RemoveFromArray ==
  \E item \in Entities :
     /\ Becomes([State EXCEPT !.game.gameObjects = removeFromArray(@, item)])
     /\ lastOp' = Op("removeFromArray", << item >>, State)

PoolInit ==
  /\ game = Fresh.game
  /\ menu = Fresh.menu
  /\ dom = Fresh.dom
  /\ lastOp = NoOp

PoolNext == AddGameObject \/ RemoveGameObject \/ RemoveFromArray

PoolSpec == PoolInit /\ [][PoolNext]_vars

-----------------------------------------------------------------------------
(* Properties *)

ship == game.shipStats

\* C1: in every reachable state 0 <= shipStats.fuel <= shipStats.fuelMax
C1_FuelWithinBounds ==
  0 <= ship.fuel /\ ship.fuel <= ship.fuelMax

\* C1 case: the economy tick at warp 3.0 with 0.05 fuel left has clamped the
\* fuel to 0 and applied the out-of-fuel decay
C1_Witness ==
  /\ ship.fuel = 0
  /\ ship.warp = 3 * U - outOfFuelDecay
  /\ game.time = SnapTime + economyInterval

\* C2: in every reachable state 0 <= shipStats.warp <= shipStats.warpMax,
\* also after a ship or engine purchase that changes warpMax
C2_WarpWithinBounds ==
  0 <= ship.warp /\ ship.warp <= ship.warpMax

\* C3: in every reachable state 0 <= shipStats.iron <= shipStats.cargoMax,
\* also after the purchase of a ship with a smaller hold
C3_IronWithinBounds ==
  0 <= ship.iron /\ ship.iron <= ship.cargoMax

\* C4: in every reachable state shipStats.distance >= 0, after economy ticks
\* below warp 2.2 and after any number of collisions in one frame
C4_DistanceNonNegative ==
  ship.distance >= 0

\* C4 case: two asteroids have hit the ship in the same frame, 3.0 clicks
\* from the horizon at warp 2.2, and the distance is 0
C4_Witness ==
  /\ Len(game.asteroids) = 2
  /\ \A i \in 1..Len(game.asteroids) : game.asteroids[i].isColliding
  /\ game.time = SnapTime + 500
  /\ ship.distance = 0

\* C5: when the distance reaches 0 in a frame, game over is raised in that
\* same frame's update pass: no state between frames has distance <= 0
\* without the game-over flag
C5_GameOverSameFrame ==
  ship.distance <= 0 => game.isGameOver

\* what the simulation advances: clock, timers, ShipState and the pools
simulation ==
  << game.time, game.shipStats, game.fuelConsumptionTimer,
     game.asteroidSpawnTimer, game.debrisSpawnTimer, game.passiveIronTimer,
     game.asteroids, game.particles, game.debrisParticles,
     game.currentLaserTarget >>

\* C6: game over freezes the simulation: while the game-over flag stays set
\* no step changes the clock, the timers, the ShipState or the pools
C6_GameOverFreezes ==
  [][game.isGameOver /\ game.isGameOver' => simulation' = simulation]_vars

\* C7: closeTradingStation sets fuel = fuelMax, distance = 100 and warp = 2.2
\* whatever they were, and clears the tutorial and danger latches
C7_CloseResetsMission ==
  lastOp.name = "closeTradingStation" =>
    /\ ship.fuel = ship.fuelMax
    /\ ship.distance = 100 * U
    /\ ship.warp = (22 * U) \div 10
    /\ \A k \in DOMAIN game.tutorialShown : ~game.tutorialShown[k]
    /\ ~game.dangerWarningShown

\* C7 case: the station was left with the tank empty, warp 0.1, 30 clicks
\* from the horizon and the danger and controls latches set
C7_Witness ==
  /\ lastOp.name = "closeTradingStation"
  /\ lastOp.pre.shipStats.fuel = 0
  /\ lastOp.pre.shipStats.warp = U \div 10
  /\ lastOp.pre.shipStats.distance = 30 * U
  /\ lastOp.pre.dangerWarningShown
  /\ lastOp.pre.tutorialShown.controls

\* C8: after closeTradingStation there are no live asteroids, explosion
\* particles or debris particles and no laser target
C8_CloseFlushesPools ==
  lastOp.name = "closeTradingStation" =>
    /\ game.asteroids = << >>
    /\ game.particles = << >>
    /\ game.debrisParticles = << >>
    /\ game.currentLaserTarget = 0

\* C9 as stated: openTradingStation raises the credits by ironCargo * 50
\* exactly, zeroes the cargo, stops the loop, changes no other ShipState field
C9_SellsAtFiftyPerTon ==
  lastOp.name = "openTradingStation" =>
    /\ game.credits * U = lastOp.pre.credits * U
                          + lastOp.pre.shipStats.iron * ironPrice
    /\ ship = [lastOp.pre.shipStats EXCEPT !.iron = 0]
    /\ ~game.isRunning

\* C9 amended: openTradingStation raises the credits by ironCargo * 50 rounded
\* down to whole credits, zeroes the cargo, stops the loop, changes no other
\* ShipState field
C9_SellsAtFiftyPerTonFloored ==
  lastOp.name = "openTradingStation" =>
    /\ game.credits * U <= lastOp.pre.credits * U
                           + lastOp.pre.shipStats.iron * ironPrice
    /\ (game.credits + 1) * U > lastOp.pre.credits * U
                                + lastOp.pre.shipStats.iron * ironPrice
    /\ ship = [lastOp.pre.shipStats EXCEPT !.iron = 0]
    /\ ~game.isRunning

\* C9 case: 1.234567 tons sold with the loop running: 61.72835 rounds down
\* to 61 credits
C9_Witness ==
  /\ lastOp.name = "openTradingStation"
  /\ lastOp.pre.isRunning
  /\ lastOp.pre.shipStats.iron = (123 * U) \div 100 + 4567
  /\ game.credits = lastOp.pre.credits + 61

\* what a frame of the simulation advances and no station purchase touches
frameProgress ==
  << game.time, game.fuelConsumptionTimer, game.asteroidSpawnTimer,
     game.debrisSpawnTimer, game.passiveIronTimer, game.asteroids,
     game.particles, game.debrisParticles, ship.iron, ship.distance >>

\* C10: while the ship is at the station the simulation is paused: no step
\* taken with the station open advances the clock, a timer, a pool, the
\* cargo or the distance, whatever other UI events happen meanwhile
C10_StationPausesSimulation ==
  [][dom.stationModal /\ dom.stationModal' => frameProgress' = frameProgress]_vars

\* a step is a frame of update() exactly when the game clock advances
frame == game.time' # game.time

deltaTime == game.time' - game.time

\* the frame ran the once-per-second economy step
ticked ==
  game.shipDebugMode' /\ game.fuelConsumptionTimer + deltaTime >= economyInterval

\* the warp values the frame's arrow-key handling can leave
warpAfterControls ==
  IF game.shipDebugMode
  THEN { ship.warp, Min(ship.warp + U \div 10, ship.warpMax),
         Max(ship.warp - U \div 10, 0) }
  ELSE { ship.warp }

\* ids of the asteroids whose collision latch is set
latched(asts) ==
  { asts[i].id : i \in { j \in 1..Len(asts) : asts[j].isColliding } }

\* the asteroids that hit the ship in this frame
hits == latched(game.asteroids') \ latched(game.asteroids)

\* C11: a collision (asteroid closer than 5 units, latch unset) subtracts the
\* current warp from the distance, clamped at 0, once, and sets the latch; a
\* latched asteroid stays latched and never damages again, in the same or a
\* later frame, also while it still overlaps the ship: in every frame the
\* distance falls by the warp once per newly latched asteroid and by nothing
\* else but the economy step
C11_CollisionDamagesOnce ==
  [][/\ latched(game.asteroids) \cap Ids(game.asteroids')
          \subseteq latched(game.asteroids')
     /\ frame =>
          /\ \A i \in 1..Len(game.asteroids') :
                distanceTo(game.asteroids'[i]) < 5
                   => game.asteroids'[i].isColliding
          /\ \E w \in warpAfterControls :
                /\ \/ ship.warp' = w
                   \/ /\ ticked
                      /\ ship.fuel' = 0
                      /\ ship.warp' = Max(0, w - (2 * U) \div 10)
                /\ ship.distance' =
                     Max(0, (IF ticked
                             THEN Max(0, ship.distance + w - (22 * U) \div 10)
                             ELSE ship.distance)
                            - Cardinality(hits) * ship.warp')]_vars

\* C11 case: an asteroid hit the ship at warp 2.3, 3.0 clicks from the
\* horizon, and stayed within 5 units through the next frame, whose economy
\* step at warp 2.4 is the only further change of the distance
C11_Witness ==
  /\ game.time = SnapTime + 1000
  /\ ship.warp = (24 * U) \div 10
  /\ ship.distance = (9 * U) \div 10
  /\ \E i \in 1..Len(game.asteroids) :
        game.asteroids[i].isColliding /\ distanceTo(game.asteroids[i]) < 5

\* C12: at warp exactly 2.2 with no collisions the distance is unchanged by
\* every frame, with or without the economy step, hence after any number of
\* economy steps (2.2 is the warp the step computes with: the warp left by
\* the frame, or 0.2 above it when the step ran the tank dry)
C12_EquilibriumHoldsDistance ==
  [][/\ frame
     /\ hits = {}
     /\ \/ ship.warp' = (22 * U) \div 10 /\ (ticked => ship.fuel' > 0)
        \/ ticked /\ ship.fuel' = 0 /\ ship.warp' = 2 * U
     => ship.distance' = ship.distance]_vars

\* C12 case: one economy step has run at warp 2.2 with no collision so far:
\* 0.22 fuel burnt, the distance still 100
C12_Witness ==
  /\ game.time = SnapTime + 1000
  /\ game.fuelConsumptionTimer = 0
  /\ latched(game.asteroids) = {}
  /\ ship.warp = (22 * U) \div 10
  /\ ship.fuel = 100 * U - (22 * U) \div 100
  /\ ship.distance = 100 * U

\* C13: an economy step without collisions changes the distance by exactly
\* warp - 2.2, clamped below at 0 and not bounded above, where warp is the
\* value the step starts with: the one left by the frame's key handling,
\* before the step's own out-of-fuel decay
C13_DistanceMovesByWarpDifference ==
  [][frame /\ ticked /\ hits = {} =>
       \E w \in warpAfterControls :
          /\ ship.warp' = IF ship.fuel' = 0 THEN Max(0, w - (2 * U) \div 10)
                          ELSE w
          /\ ship.distance' =
                Max(0, ship.distance + w - (22 * U) \div 10)]_vars

\* C13 case: one economy step at warp 6.5 from 100 clicks, no collision:
\* the distance is 104.3
C13_Witness ==
  /\ game.time = SnapTime + 1000
  /\ game.fuelConsumptionTimer = 0
  /\ latched(game.asteroids) = {}
  /\ ship.warp = (65 * U) \div 10
  /\ ship.distance = (1043 * U) \div 10

\* C14: an economy step lowers the fuel by (warp / 10) * (1 - the engine's
\* fuel reduction), clamped at 0, warp being the value the step starts with;
\* when that leaves the fuel at 0 the same step lowers the warp by 0.2,
\* floored at 0, and otherwise the step leaves the warp alone
C14_FuelBurnsByWarpTenth ==
  [][frame /\ ticked =>
       \E w \in warpAfterControls :
          /\ ship.fuel' =
                Max(0, ship.fuel
                       - ((w \div 10) * (100 - getFuelReduction(game))) \div 100)
          /\ ship.warp' = IF ship.fuel' = 0 THEN Max(0, w - (2 * U) \div 10)
                          ELSE w]_vars

\* C14 case: fuel 0.05, warp 3.0, standard drive: the step needs 0.3, the
\* fuel is 0 and the warp 2.8 after it, the distance having moved by 3.0 - 2.2
C14_Witness ==
  /\ game.time = SnapTime + 1000
  /\ game.fuelConsumptionTimer = 0
  /\ game.ownedUpgrades.engine = "standard_drive"
  /\ ship.fuel = 0
  /\ ship.warp = (28 * U) \div 10
  /\ ship.distance = (1008 * U) \div 10

\* power of the owned weapon in the upgrade catalog, as a percentage
weaponPower ==
  LET owned == { w \in weaponsData : w.id = game.ownedUpgrades.weapon }
  IN  IF owned = {} THEN 100 ELSE (CHOOSE w \in owned : TRUE).power

\* the batches an explosion of this frame has put into the particle pool
newBatches ==
  { i \in 1..Len(game.particles') : game.particles'[i].age = deltaTime }

created ==
  { j \in 1..Len(game.particles') :
      ~\E i \in 1..Len(game.particles) :
          game.particles'[j] = [game.particles[i] EXCEPT !.age = @ + deltaTime] }

\* the batches the frame has collected: neither expired nor left in the pool
gone ==
  { i \in 1..Len(game.particles) :
      /\ game.particles[i].age + deltaTime < game.particles[i].lifetime
      /\ ~\E j \in 1..Len(game.particles') :
            game.particles'[j] = [game.particles[i] EXCEPT !.age = @ + deltaTime] }

\* iron carried by the batches I of the pool ps
RECURSIVE yieldOf(_, _)
yieldOf(ps, I) ==
  IF I = {} THEN 0
  ELSE LET i == CHOOSE k \in I : TRUE
       IN  ps[i].n * ps[i].ironValue + yieldOf(ps, I \ {i})

\* x times the multiplier pct given as a percentage, rounded down
times(x, pct) == x * (pct \div 100) + (x * (pct % 100)) \div 100

\* the frame ran the passive collection from the debris stream
passiveFired ==
  game.shipDebugMode' /\ game.passiveIronTimer + deltaTime >= 1000

lastItem ==
  CHOOSE x \in getUpgradeData(lastOp.arg[1]) : x.id = lastOp.arg[2]

\* C17: purchaseUpgrade called with fewer credits than the item's price
\* changes nothing: credits, ownedUpgrades and ShipState are as before; and
\* the credits are never negative
C17_InsufficientCreditsNoOp ==
  /\ game.credits >= 0
  /\ lastOp.name = "purchaseUpgrade" /\ lastOp.pre.credits < lastItem.price =>
       /\ game.credits = lastOp.pre.credits
       /\ game.ownedUpgrades = lastOp.pre.ownedUpgrades
       /\ ship = lastOp.pre.shipStats

\* C17 case: the Mining Laser Mk II (1500) was asked for with 1499 credits
C17_Witness ==
  /\ lastOp.name = "purchaseUpgrade"
  /\ lastOp.arg = <<"weapons", "laser_mk2">>
  /\ lastOp.pre.credits = 1499
  /\ lastOp.pre.ownedUpgrades.weapon = "laser_mk1"
  /\ game.credits = 1499
  /\ game.ownedUpgrades.weapon = "laser_mk1"

\* C18: a purchase the credits cover deducts exactly the price, records the
\* item as the owned one of its category and applies its overrides at once:
\* a ship sets warpMax, fuelMax and cargoMax to its values and the fuel to
\* the new fuelMax, an engine sets warpMax, a weapon or an extractor changes
\* no ShipState field
C18_PurchaseApplies ==
  lastOp.name = "purchaseUpgrade" /\ lastOp.pre.credits >= lastItem.price =>
    /\ game.credits = lastOp.pre.credits - lastItem.price
    /\ game.ownedUpgrades =
         [lastOp.pre.ownedUpgrades EXCEPT
            ![categoryToKey(lastOp.arg[1])] = lastItem.id]
    /\ ship =
         CASE lastOp.arg[1] = "ships" ->
                [lastOp.pre.shipStats EXCEPT
                   !.warpMax = lastItem.warpMax, !.fuelMax = lastItem.fuelMax,
                   !.cargoMax = lastItem.cargoMax, !.fuel = lastItem.fuelMax]
           [] lastOp.arg[1] = "propulsion" ->
                [lastOp.pre.shipStats EXCEPT !.warpMax = lastItem.maxWarpSpeed]
           [] OTHER -> lastOp.pre.shipStats

\* C18 case: the Hauler Class (5000) bought with 5000 credits and 0.05 fuel
\* in the tank: no credits left, the tank at the hauler's 150
C18_Witness ==
  /\ lastOp.name = "purchaseUpgrade"
  /\ lastOp.arg = <<"ships", "hauler_class">>
  /\ lastOp.pre.credits = 5000
  /\ lastOp.pre.shipStats.fuel = U \div 20
  /\ game.credits = 0
  /\ game.ownedUpgrades.ship = "hauler_class"
  /\ ship.fuel = 150 * U
  /\ ship.cargoMax = 40 * U

\* C19: the station is entered only by a Space press made while mining: a
\* Space press during the fly-in, with the loop paused or stopped, with the
\* station already open or after game over changes nothing, so every step
\* in which the Space handler sells the cargo and opens the station starts
\* with the loop running, the ship under manual control, the game not over
\* and the station closed
C19_StationOnlyFromMining ==
  [][lastOp'.name = "openTradingStation" /\ lastOp' # lastOp =>
       /\ game.isRunning
       /\ game.shipDebugMode
       /\ ~game.isGameOver
       /\ ~dom.stationModal]_vars

\* range of the owned weapon in the upgrade catalog, 30 units on a lookup miss
weaponRange ==
  LET owned == { w \in weaponsData : w.id = game.ownedUpgrades.weapon }
  IN  IF owned = {} THEN 30 ELSE (CHOOSE w \in owned : TRUE).range

\* the asteroids the laser may target: alive, in front of the ship, no
\* farther than the weapon's range
eligible ==
  { i \in 1..Len(game.asteroids) :
      /\ game.asteroids[i].health > 0
      /\ isInFront(game.asteroids[i])
      /\ distanceTo(game.asteroids[i]) <= weaponRange }

\* asteroid i of the pool has lost health in the step, or has been destroyed
damaged(i) ==
  \A j \in 1..Len(game.asteroids') :
     game.asteroids'[j].id = game.asteroids[i].id
        => game.asteroids'[j].health < game.asteroids[i].health

\* C20: each frame the laser works on the nearest asteroid among those alive,
\* in front of the ship and within the laser range of the equipped weapon,
\* and on no other; when there is none the current target is cleared and no
\* asteroid loses health in that frame
C20_TargetsNearestInRange ==
  [][frame /\ ~game.isGameOver =>
       IF eligible = {}
       THEN /\ game.currentLaserTarget' = 0
            /\ \A i \in 1..Len(game.asteroids) : ~damaged(i)
       ELSE \E i \in eligible :
               /\ \A k \in eligible :
                     distanceTo(game.asteroids[i])
                        <= distanceTo(game.asteroids[k])
               /\ damaged(i)
               /\ \A k \in 1..Len(game.asteroids) : k # i => ~damaged(k)]_vars

\* C21: the effective laser range is the range of the equipped weapon (Mk I
\* 30, Mk II 35, Mk III 40, Plasma Cutter 45): in every frame with a live
\* asteroid in front of the ship between 30 units and that range, the laser
\* works on an asteroid within the range
C21_UpgradedRangeTargets ==
  [][/\ frame
     /\ ~game.isGameOver
     /\ \E i \in eligible : distanceTo(game.asteroids[i]) >= 30
     => \E i \in eligible : damaged(i)]_vars

\* the batches the frame has aged to their lifetime
expired ==
  { i \in 1..Len(game.particles) :
      game.particles[i].age + deltaTime >= game.particles[i].lifetime }

\* what collecting the batches I of the pool ps pays at the multiplier pct:
\* ironValue * extractorMultiplier per particle
RECURSIVE paidBy(_, _, _)
paidBy(ps, I, pct) ==
  IF I = {} THEN 0
  ELSE LET i == CHOOSE k \in I : TRUE
       IN  ps[i].n * ((ps[i].ironValue * pct) \div 100)
           + paidBy(ps, I \ {i}, pct)

ages(pool) == [i \in 1..Len(pool) |-> pool[i].age]

\* the clock, the asteroid-spawn accumulator and the entity ages
carried ==
  << game.time, game.asteroidSpawnTimer, ages(game.particles),
     ages(game.debrisParticles) >>

\* the economy, debris-spawn and passive-iron accumulators
missionTimers ==
  << game.fuelConsumptionTimer, game.debrisSpawnTimer, game.passiveIronTimer >>

\* the step is the station's return button running closeTradingStation
stationReturn ==
  lastOp'.name = "closeTradingStation" /\ lastOp' # lastOp

-----------------------------------------------------------------------------
(* C24 *)

\* economy ticks applied since the mission was picked up, read off the fuel
\* burned: with no key held the warp stays at 2.2 and each tick burns 0.22
ticksApplied == (baseShipStats.fuel - ship.fuel) \div (baseShipStats.warp \div 10)

\* whole seconds of frame time accumulated since the mission was picked up
wholeSeconds == (game.time - SnapTime) \div economyInterval

\* C24: under manual control, whatever the frame deltas, the number of
\* economy ticks applied equals the number of whole seconds of accumulated
\* frame time
C24_TicksAreWholeSeconds ==
  game.shipDebugMode /\ ~game.isGameOver => ticksApplied = wholeSeconds

-----------------------------------------------------------------------------
(* C25 *)

\* C25: a frame that leaves the ship outside player control (shipDebugMode
\* false) spawns no asteroid and no debris, applies no economy tick and
\* collects no passive iron, and advances none of their accumulators; player
\* control is enabled only by the frame in which the fly-in completes
C25_CinematicSuspendsEconomy ==
  [][/\ frame /\ ~game.shipDebugMode' =>
          /\ game.nextId' = game.nextId
          /\ game.asteroids' = game.asteroids
          /\ game.debrisParticles' = game.debrisParticles
          /\ ship' = ship
          /\ game.asteroidSpawnTimer' = game.asteroidSpawnTimer
          /\ missionTimers' = missionTimers
     /\ ~game.shipDebugMode /\ game.shipDebugMode' =>
          /\ frame
          /\ game.isAnimating /\ ~game.isAnimating'
          /\ game.time' - game.animStartTime >= flyInDuration]_vars

\* two and a half seconds into the fly-in: nothing spawned, nothing burned
C25_Witness ==
  /\ game.isAnimating
  /\ ~game.shipDebugMode
  /\ game.time = 2500
  /\ game.asteroids = << >>
  /\ game.debrisParticles = << >>
  /\ ship = baseShipStats
  /\ missionTimers = << 0, 0, 0 >>

-----------------------------------------------------------------------------
(* C26 *)

-----------------------------------------------------------------------------
(* C27 *)

\* C27: right after resetGame the game-over flag is clear and the mission
\* start is re-established: warp 2.2, fuel = fuelMax, cargo 0, distance 100,
\* no asteroids, particles or debris, no laser target, manual control off,
\* every spawn and economy accumulator at zero, every tutorial and danger
\* latch cleared
C27_ResetRestoresMissionStart ==
  lastOp.name = "resetGame" =>
    /\ ~game.isGameOver
    /\ ship.warp = (22 * U) \div 10
    /\ ship.fuel = ship.fuelMax
    /\ ship.iron = 0
    /\ ship.distance = missionDistance
    /\ game.asteroids = << >>
    /\ game.particles = << >>
    /\ game.debrisParticles = << >>
    /\ game.currentLaserTarget = 0
    /\ ~game.shipDebugMode
    /\ game.fuelConsumptionTimer = 0
    /\ game.asteroidSpawnTimer = 0
    /\ game.debrisSpawnTimer = 0
    /\ game.passiveIronTimer = 0
    /\ game.tutorialShown = Fresh.game.tutorialShown
    /\ ~game.dangerWarningShown

-----------------------------------------------------------------------------
(* C28 *)

\* the owned item of a category is missing from the loaded catalog
missed(key) == game.ownedUpgrades[key] \in game.catalogGaps

-----------------------------------------------------------------------------
(* C29 *)

\* the step is a call of removeGameObject or removeFromArray
removal == lastOp'.name \in {"removeGameObject", "removeFromArray"}

\* occurrences of x in the pool
count(pool, x) == Cardinality({ i \in 1..Len(pool) : pool[i] = x })

\* C29: removing an entity that is not in the pool leaves the pool exactly
\* as it is, so a second removal of an entity the first call has taken out
\* is a no-op; a removal of an entity that is in the pool takes out one
\* occurrence of it, the first, and no other entity; nothing but the pool
\* changes
C29_RemovalIdempotent ==
  [][removal =>
       LET x == lastOp'.arg[1]
           pool == game.gameObjects
       IN  /\ count(pool, x) = 0 => game.gameObjects' = pool
           /\ count(pool, x) > 0 =>
                \E i \in 1..Len(pool) :
                   /\ pool[i] = x
                   /\ \A k \in 1..(i - 1) : pool[k] # x
                   /\ game.gameObjects' =
                         [j \in 1..(Len(pool) - 1) |->
                            IF j < i THEN pool[j] ELSE pool[j + 1]]
           /\ \A y \in Entities \ {x} :
                count(game.gameObjects', y) = count(pool, y)
           /\ [game EXCEPT !.gameObjects = << >>]'
                 = [game EXCEPT !.gameObjects = << >>]
           /\ menu' = menu /\ dom' = dom]_vars

\* C29 case: removeGameObject("b") called on the pool << "a", "c" >>, which
\* holds "b" no longer, has left it as it was
C29_Witness ==
  /\ lastOp.name = "removeGameObject"
  /\ lastOp.arg = << "b" >>
  /\ lastOp.pre.gameObjects = << "a", "c" >>
  /\ game.gameObjects = << "a", "c" >>

-----------------------------------------------------------------------------
(* C30 *)

\* warpMax, fuelMax and cargoMax
maxima(st) == << st.warpMax, st.fuelMax, st.cargoMax >>

-----------------------------------------------------------------------------
(* C31 *)

-----------------------------------------------------------------------------
(* C32 *)

-----------------------------------------------------------------------------
(* C33 *)

\* C33: out of fuel the warp does not rise from one economy step to the
\* next whatever keys are held: starting out of fuel at warp 0.1, the warp
\* right after every later economy step is 0.1 at most
C33_OutOfFuelNoAcceleration ==
  /\ game.time > SnapTime
  /\ game.fuelConsumptionTimer = 0
  /\ ship.fuel = 0
  => ship.warp <= U \div 10

\* C34: a notification is hidden only by its own timer or by a station
\* return (the danger warning also by the escape above 40 clicks), never by
\* the pending timer of an earlier message; and the danger warning is not
\* hidden while the distance stays below 40
C34_NotificationKeepsItsDuration ==
  [][LET fired == dom.messageTimers \ dom.messageTimers'
         hidden == dom.message # "none" /\ dom.message' = "none"
         escaped == frame /\ dom.message = "danger"
                    /\ ship.distance' >= dangerDistance
     IN  /\ hidden =>
              \/ stationReturn
              \/ escaped
              \/ \E t \in fired : t.message = dom.message
         /\ hidden /\ dom.message = "danger" /\ ship.distance' < dangerDistance =>
              stationReturn]_vars

\* C35: once distance has reached 0 in a mission, no step opens the trading
\* station or puts the distance back before game over is declared
C35_HorizonIsFinal ==
  [][ship.distance <= 0 /\ ~game.isGameOver /\ ~dom.stationModal =>
       /\ ~dom.stationModal'
       /\ ship.distance' <= 0]_vars

\* C36: at most one frame-loop chain is live: while the loop is running at
\* most one animation-frame callback is queued, so update runs at most once
\* per animation frame
C36_OneLoopChain ==
  game.isRunning => dom.rafPending <= 1

\* C37: however the clicks on Start and the awaits of startGame interleave,
\* init() has run at most once and at most one loop callback is queued (the
\* loop was started once)
C37_StartIsIdempotent ==
  /\ game.inits <= 1
  /\ dom.rafPending <= 1

\* C38: with frames scheduled fairly and no key pressed, the mission ends in
\* game over: the fuel runs out, and once it is out game over follows
C38_NoInputEndsInGameOver ==
  /\ <>(ship.fuel = 0)
  /\ (ship.fuel = 0 ~> game.isGameOver)

\* C38 case: game over declared with the fuel out and the warp decayed to 0,
\* no asteroid having hit the ship
C38_Witness ==
  /\ game.isGameOver
  /\ ~game.tutorialShown.shieldHit
  /\ ship.fuel = 0
  /\ ship.warp = 0
  /\ ship.distance = 0

\* C39: in every state fuelMax and cargoMax are those of the owned ship, and
\* warpMax is that of the owned engine once an engine has been bought (with
\* the starter engine owned: that of the engine or that of the owned ship)
C39_CeilingsMatchUpgrades ==
  \A sh \in find(shipsData, game.ownedUpgrades.ship),
     en \in find(enginesData, game.ownedUpgrades.engine) :
       /\ ship.fuelMax = sh.fuelMax
       /\ ship.cargoMax = sh.cargoMax
       /\ \/ ship.warpMax = en.maxWarpSpeed
          \/ en.id = starterUpgrades.engine /\ ship.warpMax = sh.warpMax

=============================================================================
